---- MODULE Spec2Model ----
(***************************************************************************)
(* Model of cue_splitter.py: the indentation tree parser (simple_parse),   *)
(* the timestamp parser (parse_time) and the body of main (album and track *)
(* building, the end-time sweep, and the emission of one ffmpeg command    *)
(* per track).                                                             *)
(*                                                                         *)
(* Representation of Python values:                                        *)
(*   - a str whose characters the code inspects (an input line, a token)   *)
(*     is a sequence of one-character strings; a str used as a dict key or *)
(*     printed is a TLA+ string (Join converts);                           *)
(*   - a dict is a function whose domain is the set of its keys;           *)
(*   - a list stored in a tree dict is a record [tok, v]: v is the list,   *)
(*     tok is TRUE for a list of tokens and FALSE for a list of objects    *)
(*     (Python's dynamic type of the list elements);                       *)
(*   - a timedelta is its integer number of microseconds.                  *)
(***************************************************************************)
EXTENDS Integers, Sequences, FiniteSets, TLC

VARIABLES
  pc,          \* position of the run
  raw_lines,   \* lines of the opened cue file                (line 88)
  cue_data,    \* deque of right-stripped lines               (line 88)
  cue,         \* tree returned by simple_parse               (line 89)
  time,        \* argument of parse_time
  delta,       \* value returned by parse_time
  metadata,    \* file['metadata'], the album's tags         (line 91)
  track_count, \* file['track_count']                        (line 96)
  path,        \* file['path']                               (line 98)
  tracks,      \* file['tracks']                             (line 92)
  cursor,      \* <<f, t>>: the FILE and TRACK the loops of line 122 are at
  time_ordered_tracks, \* the sorted deque, as indices into tracks (line 155)
  end_time,    \* the running end time of the sweep           (line 159)
  sweep_i,     \* position of the sweep in time_ordered_tracks
  emit_i,      \* position of the loop of line 173 in tracks
  jobs,        \* the commands printed so far                 (line 198)
  error        \* <<stage, exception>> once the run has raised

parseVars == <<raw_lines, cue_data, cue>>
timeVars  == <<time, delta>>
mainVars  == <<metadata, track_count, path, tracks, cursor,
               time_ordered_tracks, end_time, sweep_i, emit_i, jobs, error>>

-----------------------------------------------------------------------------
(* Bounds *)
MaxLines  == 4    \* longest input of the parser specification
MaxIndent == 2    \* deepest indentation of an input line
MaxTracks == 3    \* most TRACK entries of an input tree

-----------------------------------------------------------------------------
(* Strings *)

\* str.lstrip() / str.rstrip() / shlex whitespace
Whitespace == {" ", "\t"}

RECURSIVE Join(_)
Join(cs) == IF cs = <<>> THEN "" ELSE cs[1] \o Join(Tail(cs))

RECURSIVE lstrip(_)
lstrip(s) ==
  IF s # <<>> /\ Head(s) \in Whitespace THEN lstrip(Tail(s)) ELSE s

RECURSIVE rstrip(_)
rstrip(s) ==
  IF s # <<>> /\ s[Len(s)] \in Whitespace
  THEN rstrip(SubSeq(s, 1, Len(s) - 1))
  ELSE s

\* index of the first occurrence of ch in s, 0 when there is none
IndexOf(s, ch) ==
  IF \E i \in 1..Len(s) : s[i] = ch
  THEN CHOOSE i \in 1..Len(s) : s[i] = ch /\ \A j \in 1..(i - 1) : s[j] # ch
  ELSE 0

\* str.partition(sep): (head, sep, tail), or (s, '', '') without sep
partition(s, sep) ==
  LET i == IndexOf(s, sep)
  IN IF i = 0 THEN <<s, <<>>, <<>>>>
     ELSE <<SubSeq(s, 1, i - 1), <<sep>>, SubSeq(s, i + 1, Len(s))>>

\* shlex.split(value) for values made of plain characters, whitespace and
\* balanced double quotes: tokens are separated by whitespace, a quoted
\* part may contain whitespace, the quotes are removed.
RECURSIVE shlex_scan(_, _, _, _, _)
shlex_scan(s, cur, started, quoted, acc) ==
  IF s = <<>> THEN (IF started THEN Append(acc, cur) ELSE acc)
  ELSE LET ch == Head(s) IN
    IF quoted
    THEN IF ch = "\""
         THEN shlex_scan(Tail(s), cur, TRUE, FALSE, acc)
         ELSE shlex_scan(Tail(s), Append(cur, ch), TRUE, TRUE, acc)
    ELSE IF ch = "\""
         THEN shlex_scan(Tail(s), cur, TRUE, TRUE, acc)
         ELSE IF ch \in Whitespace
              THEN shlex_scan(Tail(s), <<>>, FALSE, FALSE,
                              IF started THEN Append(acc, cur) ELSE acc)
              ELSE shlex_scan(Tail(s), Append(cur, ch), TRUE, FALSE, acc)

shlex_split(value) == shlex_scan(value, <<>>, FALSE, FALSE, <<>>)

-----------------------------------------------------------------------------
(* Timestamps *)

DigitChars == {"0", "1", "2", "3", "4", "5", "6", "7", "8", "9"}

DigitValue(ch) ==
  CASE ch = "0" -> 0 [] ch = "1" -> 1 [] ch = "2" -> 2 [] ch = "3" -> 3
    [] ch = "4" -> 4 [] ch = "5" -> 5 [] ch = "6" -> 6 [] ch = "7" -> 7
    [] ch = "8" -> 8 [] ch = "9" -> 9

\* int(s) accepts s (for strings of digits and letters: a non-empty string
\* of digits); otherwise it raises ValueError
int_ok(s) == s # <<>> /\ \A i \in 1..Len(s) : s[i] \in DigitChars

RECURSIVE int(_)
int(s) ==
  IF s = <<>> THEN 0
  ELSE 10 * int(SubSeq(s, 1, Len(s) - 1)) + DigitValue(s[Len(s)])

\* str.split(sep)
RECURSIVE split(_, _)
split(s, sep) ==
  LET i == IndexOf(s, sep)
  IN IF i = 0 THEN <<s>>
     ELSE <<SubSeq(s, 1, i - 1)>> \o split(SubSeq(s, i + 1, Len(s)), sep)

FramesPerSecond == 75

\* n / d rounded to the nearest integer (no tie occurs for d = 75 * k)
RoundDiv(n, d) == (2 * n + d) \div (2 * d)

\* variant that takes frames for hundredths of a second
frames_us_centi(frames) == RoundDiv(frames * 1000000, 100)

\* milliseconds=(frames / 75) * 1000, in the microseconds that timedelta
\* keeps (it rounds the float to the nearest microsecond)
frames_us(frames) == RoundDiv(frames * 1000000, FramesPerSecond)

\* [minutes, seconds, frames] = map(int, time.split(':')) raises ValueError
\* unless there are exactly three integers
parse_time_ok(t) ==
  LET parts == split(t, ":")
  IN Len(parts) = 3 /\ \A i \in 1..3 : int_ok(parts[i])

\* parse_time: the timedelta in microseconds
parse_time(t) ==
  LET parts == split(t, ":")
  IN int(parts[1]) * 60000000 + int(parts[2]) * 1000000
       + frames_us(int(parts[3]))

-----------------------------------------------------------------------------
(* Indentation tree parser *)

EmptyDict == [k \in {} |-> 0]
TokList(ts) == [tok |-> TRUE, v |-> ts]
ObjList(os) == [tok |-> FALSE, v |-> os]

\* pop_line: the line, the line without its indentation, the indentation,
\* and the deque after popleft
pop_line(lines) ==
  LET line == Head(lines)
      c    == lstrip(line)
  IN [line |-> line, c |-> c, indent |-> Len(line) - Len(c),
      lines |-> Tail(lines)]

\* if not key in out: out[key] = [] ; out[key].append(obj)
append(out, key, obj) ==
  IF key \in DOMAIN out
  THEN [out EXCEPT ![key] = ObjList(Append(@.v, obj))]
  ELSE (key :> ObjList(<<obj>>)) @@ out

\* dict.update: the entries of other replace those of d
update(d, other) == other @@ d

\* the comparison that ends the loop of a nested block
dedent(next_indent, indent) == next_indent < indent

\* simple_parse: parse_loop(out, lines) is the while loop entered with the
\* dict out and the deque lines; the result is the returned dict and the
\* deque as the call leaves it (the deque is shared by all the calls).
RECURSIVE parse_loop(_, _)
parse_loop(out, lines) ==
  IF Len(lines) = 0 THEN [out |-> out, lines |-> lines]
  ELSE
    LET p    == pop_line(lines)
        kv   == partition(p.c, " ")
        key  == Join(kv[1])
        obj  == ("" :> TokList(shlex_split(kv[3])))
        rest == p.lines
    IN IF Len(rest) = 0
       THEN [out |-> append(out, key, obj), lines |-> rest]
       ELSE
         LET next_indent == pop_line(rest).indent
         IN IF next_indent > p.indent
            THEN LET sub == parse_loop(EmptyDict, rest)
                 IN parse_loop(append(out, key, update(obj, sub.out)),
                               sub.lines)
            ELSE IF dedent(next_indent, p.indent)
                 THEN [out |-> append(out, key, obj), lines |-> rest]
                 ELSE parse_loop(append(out, key, obj), rest)

simple_parse(lines) == parse_loop(EmptyDict, lines)

-----------------------------------------------------------------------------
(* Values before the run has set them *)

None == <<>>
Some(x) == <<x>>
NoError == <<"", "">>
NoDelta == [err |-> FALSE, us |-> 0]

MainIdle ==
  /\ metadata = <<>>
  /\ track_count = 0
  /\ path = ""
  /\ tracks = <<>>
  /\ cursor = <<1, 1>>
  /\ time_ordered_tracks = <<>>
  /\ end_time = None
  /\ sweep_i = 1
  /\ emit_i = 1
  /\ jobs = <<>>
  /\ error = NoError

-----------------------------------------------------------------------------
(* Inputs of the parser specification: line i carries the digit i as its   *)
(* argument, so that every non-blank line is told apart in the tree.       *)

Digit == <<"1", "2", "3", "4", "5", "6", "7", "8", "9">>

Spaces(n) == [i \in 1..n |-> " "]

\* `A i' at every indentation, ` B "i z" ' (a quoted argument and trailing
\* whitespace), an empty line and a whitespace-only line
LineChoices(i) ==
  {Spaces(n) \o <<"A", " ", Digit[i]>> : n \in 0..MaxIndent}
  \cup {<<" ", "B", " ", "\"", Digit[i], " ", "z", "\"", " ">>,
        <<>>, <<" ", " ">>}

RECURSIVE LineSeqs(_)
LineSeqs(n) ==
  IF n = 0 THEN {<<>>}
  ELSE {Append(s, l) : s \in LineSeqs(n - 1), l \in LineChoices(n)}

InitParse ==
  /\ pc = "open"
  /\ \E n \in 1..MaxLines : raw_lines \in LineSeqs(n)
  /\ cue_data = <<>>
  /\ cue = EmptyDict
  /\ time = <<>>
  /\ delta = NoDelta
  /\ MainIdle

\* cue_data = deque([l.rstrip() for l in open(cue_file, ...)])
ReadLines ==
  /\ pc = "open"
  /\ cue_data' = [i \in 1..Len(raw_lines) |-> rstrip(raw_lines[i])]
  /\ pc' = "parse"
  /\ UNCHANGED <<raw_lines, cue, timeVars, mainVars>>

\* cue = simple_parse(cue_data)
Parse ==
  /\ pc = "parse"
  /\ LET r == simple_parse(cue_data)
     IN /\ cue' = r.out
        /\ cue_data' = r.lines
  /\ pc' = "parsed"
  /\ UNCHANGED <<raw_lines, timeVars, mainVars>>

vars == <<pc, raw_lines, cue_data, cue, time, delta, metadata, track_count,
          path, tracks, cursor, time_ordered_tracks, end_time, sweep_i,
          emit_i, jobs, error>>

NextParse == ReadLines \/ Parse
SpecParse == InitParse /\ [][NextParse]_vars

-----------------------------------------------------------------------------
(* Specification of parse_time: the argument is drawn from timestamps and   *)
(* malformed strings, and the one action applies the function.             *)

D2(a, b) == <<a, b>>
Stamp(mm, ss, ff) == mm \o <<":">> \o ss \o <<":">> \o ff

TimeInputs ==
  {Stamp(mm, ss, ff) :
     mm \in {D2("0", "0"), D2("0", "1"), D2("0", "3")},
     ss \in {D2("0", "0"), D2("0", "1"), D2("3", "0"), D2("5", "9")},
     ff \in {D2("0", "0"), D2("0", "1"), D2("3", "7"), D2("5", "0"),
             D2("7", "4"), D2("7", "5")}}
  \cup {<<>>, <<"0", "0", ":", "0", "0">>, <<"0", "x", ":", "0", "0", ":", "0", "0">>,
        <<"0", ":", "0", ":", "0", ":", "0">>, <<"1", ":", ":", "2">>}

InitTime ==
  /\ pc = "time"
  /\ time \in TimeInputs
  /\ delta = NoDelta
  /\ raw_lines = <<>>
  /\ cue_data = <<>>
  /\ cue = EmptyDict
  /\ MainIdle

ParseTime ==
  /\ pc = "time"
  /\ delta' = IF parse_time_ok(time)
              THEN [err |-> FALSE, us |-> parse_time(time)]
              ELSE [err |-> TRUE, us |-> 0]
  /\ pc' = "timed"
  /\ UNCHANGED <<time, parseVars, mainVars>>

NextTime == ParseTime
SpecTime == InitTime /\ [][NextTime]_vars

\* C6 (amended): parse_time("00:01:50") is 1 s plus 50/75 s, i.e. 1666667
\* microseconds; parse_time("01:00:00") is 60000 ms; and 75 frames are one
\* second: parse_time("00:00:75") equals parse_time("00:01:00").
C6_ParseTimeExamples ==
  pc = "timed" =>
    /\ time = Stamp(D2("0", "0"), D2("0", "1"), D2("5", "0"))
         => delta = [err |-> FALSE, us |-> 1666667]
    /\ time = Stamp(D2("0", "1"), D2("0", "0"), D2("0", "0"))
         => delta = [err |-> FALSE, us |-> 60000000]
    /\ time = Stamp(D2("0", "0"), D2("0", "0"), D2("7", "5"))
         => delta = [err |-> FALSE, us |-> 1000000]
    /\ time = Stamp(D2("0", "0"), D2("0", "1"), D2("0", "0"))
         => delta = [err |-> FALSE, us |-> 1000000]

C6_Witness ==
  /\ pc = "timed"
  /\ time = Stamp(D2("0", "0"), D2("0", "1"), D2("5", "0"))
  /\ delta.us = 1666667

\* C6 as stated: parse_time("00:01:50") is 1850 ms.
C6_Original ==
  pc = "timed" =>
    /\ time = Stamp(D2("0", "0"), D2("0", "1"), D2("5", "0"))
         => delta = [err |-> FALSE, us |-> 1850000]
    /\ time = Stamp(D2("0", "1"), D2("0", "0"), D2("0", "0"))
         => delta = [err |-> FALSE, us |-> 60000000]
    /\ time = Stamp(D2("0", "0"), D2("0", "0"), D2("7", "5"))
         => delta = [err |-> FALSE, us |-> 1000000]
    /\ time = Stamp(D2("0", "0"), D2("0", "1"), D2("0", "0"))
         => delta = [err |-> FALSE, us |-> 1000000]

-----------------------------------------------------------------------------
(* Properties of the parser *)

Stripped == [i \in 1..Len(raw_lines) |-> rstrip(raw_lines[i])]
IndentOf(l) == Len(l) - Len(lstrip(l))
KeyOf(l) == Join(partition(lstrip(l), " ")[1])
TokensOf(l) == shlex_split(partition(lstrip(l), " ")[3])

\* the contiguous run of lines after line i that are indented more than it
Run(lines, i) ==
  {j \in (i + 1)..Len(lines) :
     \A k \in (i + 1)..j : IndentOf(lines[k]) > IndentOf(lines[i])}

\* the tree in which the children of every line are exactly its run
RECURSIVE RunTree(_, _, _, _)
RunTree(out, lines, lo, hi) ==
  IF lo > hi THEN out
  ELSE LET last == lo + Cardinality(Run(lines, lo) \cap (lo..hi))
           kids == RunTree(EmptyDict, lines, lo + 1, last)
           obj  == ("" :> TokList(TokensOf(lines[lo]))) @@ kids
       IN RunTree(append(out, KeyOf(lines[lo]), obj), lines, last + 1, hi)

\* every <<key, object>> of a tree, at every depth
RECURSIVE Entries(_)
Entries(d) ==
  UNION {UNION {{<<k, d[k].v[i]>>} \cup Entries(d[k].v[i]) :
                  i \in 1..Len(d[k].v)} :
           k \in {x \in DOMAIN d : ~d[x].tok}}

\* C1: the children of a line are exactly the contiguous run of following
\* lines indented more than it, so the tree returned by simple_parse is the
\* run tree of the input, also after a dedent of more than one level.
C1_ChildrenAreRun ==
  pc = "parsed" => cue = RunTree(EmptyDict, Stripped, 1, Len(Stripped))

\* C7: every child object of the returned tree maps the empty-string key to
\* the argument tokens of its own line, blank lines included.
C7_EmptyKeyKept ==
  pc = "parsed" =>
    \A e \in Entries(cue) :
      /\ e[2][""].tok
      /\ \E i \in 1..Len(Stripped) :
           KeyOf(Stripped[i]) = e[1] /\ TokensOf(Stripped[i]) = e[2][""].v

-----------------------------------------------------------------------------
(* main: album and track building *)

\* an insertion-ordered dict of tags is a sequence of <<key, value>>
Keys(m) == {m[i][1] : i \in DOMAIN m}
Get(m, k) == m[CHOOSE i \in DOMAIN m : m[i][1] = k][2]

\* m[k] = v
Put(m, k, v) ==
  IF k \in Keys(m)
  THEN [i \in DOMAIN m |-> IF m[i][1] = k THEN <<k, v>> ELSE m[i]]
  ELSE Append(m, <<k, v>>)

\* ' '.join(tokens)
RECURSIVE JoinSp(_)
JoinSp(ts) ==
  IF ts = <<>> THEN ""
  ELSE IF Len(ts) = 1 THEN Join(ts[1])
  ELSE Join(ts[1]) \o " " \o JoinSp(Tail(ts))

\* obj[key][0][''], the tokens of the first entry under key
Args0(obj, key) == obj[key].v[1][""].v

\* exception of obj[key][0][''][0], "" when the lookup succeeds
first_arg_error(obj, key) ==
  IF key \notin DOMAIN obj THEN "KeyError"
  ELSE IF Len(Args0(obj, key)) = 0 THEN "IndexError"
  ELSE ""

\* the first exception among es, "" when there is none
RECURSIVE first_error(_)
first_error(es) ==
  IF es = <<>> THEN ""
  ELSE IF Head(es) # "" THEN Head(es)
  ELSE first_error(Tail(es))

\* [field, *rem_args] = r[''] and the indexing of rem_args
rem_error(r, needs_arg) ==
  IF Len(r[""].v) = 0 THEN "ValueError"
  ELSE IF Join(r[""].v[1]) \in needs_arg /\ Len(r[""].v) < 2 THEN "IndexError"
  ELSE ""

\* lines 96-120: the exception the album part raises, "" when it does not
album_error(c) ==
  first_error(<<
    IF "FILE" \notin DOMAIN c THEN "KeyError"
    ELSE IF "TRACK" \notin DOMAIN c["FILE"].v[1] THEN "KeyError"
    ELSE first_arg_error(c, "FILE"),
    first_arg_error(c, "TITLE"),
    IF "PERFORMER" \in DOMAIN c THEN first_arg_error(c, "PERFORMER") ELSE "",
    IF "SONGWRITER" \in DOMAIN c THEN first_arg_error(c, "SONGWRITER") ELSE "",
    IF "REM" \in DOMAIN c
    THEN first_error([i \in DOMAIN c["REM"].v |->
                        rem_error(c["REM"].v[i], {"GENRE", "DATE"})])
    ELSE "" >>)

\* lines 106-119
RECURSIVE album_rem(_, _)
album_rem(m, rems) ==
  IF rems = <<>> THEN m
  ELSE
    LET r        == Head(rems)[""].v
        field    == Join(r[1])
        rem_args == Tail(r)
        m2 == CASE field = "GENRE" -> Put(m, "genre", Join(rem_args[1]))
                [] field = "DATE" -> Put(m, "DATE", Join(rem_args[1]))
                [] field = "REPLAYGAIN_ALBUM_GAIN" ->
                     Put(m, "replaygain_album_gain", JoinSp(rem_args))
                [] field = "REPLAYGAIN_ALBUM_PEAK" ->
                     Put(m, "replaygain_album_peak", JoinSp(rem_args))
                [] OTHER -> m
    IN album_rem(m2, Tail(rems))

\* lines 99-119: the album's tags
album_metadata(c) ==
  LET m1 == Put(<<>>, "album", Join(Args0(c, "TITLE")[1]))
      m2 == IF "PERFORMER" \in DOMAIN c
            THEN Put(m1, "album_artist", Join(Args0(c, "PERFORMER")[1]))
            ELSE m1
      m3 == IF "SONGWRITER" \in DOMAIN c
            THEN Put(m2, "composer", Join(Args0(c, "SONGWRITER")[1]))
            ELSE m2
  IN IF "REM" \in DOMAIN c THEN album_rem(m3, c["REM"].v) ELSE m3

\* the exception of one INDEX entry (lines 147-150)
index_error(index) ==
  LET a == index[""].v
  IN IF Len(a) = 0 THEN "IndexError"
     ELSE IF ~int_ok(a[1]) THEN "ValueError"
     ELSE IF int(a[1]) \in {0, 1}
          THEN (IF Len(a) < 2 THEN "IndexError"
                ELSE IF ~parse_time_ok(a[2]) THEN "ValueError"
                ELSE "")
          ELSE ""

\* lines 124-150: the exception building track t raises, "" when none
track_error(t) ==
  first_error(<<
    IF Len(t[""].v) = 0 THEN "IndexError"
    ELSE IF ~int_ok(t[""].v[1]) THEN "ValueError"
    ELSE "",
    first_arg_error(t, "TITLE"),
    IF "PERFORMER" \in DOMAIN t THEN first_arg_error(t, "PERFORMER") ELSE "",
    IF "SONGWRITER" \in DOMAIN t THEN first_arg_error(t, "SONGWRITER") ELSE "",
    IF "REPLAYGAIN_TRACK_GAIN" \in DOMAIN t
    THEN first_arg_error(t, "REPLAYGAIN_TRACK_GAIN") ELSE "",
    IF "REPLAYGAIN_TRACK_PEAK" \in DOMAIN t
    THEN first_arg_error(t, "REPLAYGAIN_TRACK_PEAK") ELSE "",
    IF "REM" \in DOMAIN t
    THEN first_error([i \in DOMAIN t["REM"].v |-> rem_error(t["REM"].v[i], {})])
    ELSE "",
    IF "INDEX" \notin DOMAIN t THEN "KeyError"
    ELSE first_error([i \in DOMAIN t["INDEX"].v |->
                        index_error(t["INDEX"].v[i])]) >>)

\* lines 139-144
RECURSIVE track_rem(_, _)
track_rem(m, rems) ==
  IF rems = <<>> THEN m
  ELSE
    LET r        == Head(rems)[""].v
        field    == Join(r[1])
        rem_args == Tail(r)
        m2 == CASE field = "REPLAYGAIN_TRACK_GAIN" ->
                     Put(m, "replaygain_track_gain", JoinSp(rem_args))
                [] field = "REPLAYGAIN_TRACK_PEAK" ->
                     Put(m, "replaygain_track_peak", JoinSp(rem_args))
                [] OTHER -> m
    IN track_rem(m2, Tail(rems))

\* metadata[name] = t[key][0][''][0] if key in t
put_if(m, t, key, name) ==
  IF key \in DOMAIN t THEN Put(m, name, Join(Args0(t, key)[1])) ELSE m

\* lines 127-144: the track's tags
track_metadata(t, id, count) ==
  LET m1 == Put(<<>>, "track", ToString(id) \o "/" \o ToString(count))
      m2 == Put(m1, "title", Join(Args0(t, "TITLE")[1]))
      m3 == put_if(m2, t, "PERFORMER", "artist")
      m4 == put_if(m3, t, "SONGWRITER", "composer")
      m5 == put_if(m4, t, "REPLAYGAIN_TRACK_GAIN", "replaygain_track_gain")
      m6 == put_if(m5, t, "REPLAYGAIN_TRACK_PEAK", "replaygain_track_peak")
  IN IF "REM" \in DOMAIN t THEN track_rem(m6, t["REM"].v) ELSE m6

\* lines 146-150: INDEX 01 sets start_time, INDEX 00 sets pregap_time
RECURSIVE index_loop(_, _)
index_loop(track, indexes) ==
  IF indexes = <<>> THEN track
  ELSE
    LET a == Head(indexes)[""].v
        n == int(a[1])
        track2 == IF n = 1 THEN ("start_time" :> parse_time(a[2])) @@ track
                  ELSE IF n = 0
                       THEN ("pregap_time" :> parse_time(a[2])) @@ track
                       ELSE track
    IN index_loop(track2, Tail(indexes))

\* lines 124-150: the track dict built from the TRACK entry t
build_track(t, count) ==
  LET id == int(t[""].v[1])
  IN index_loop([metadata |-> track_metadata(t, id, count), id |-> id],
                t["INDEX"].v)

-----------------------------------------------------------------------------
(* main: the end-time sweep *)

\* sorted(tracks, key = lambda t: t['start_time']) raises KeyError when a
\* track has no start_time
sort_error(ts) ==
  IF \E i \in DOMAIN ts : "start_time" \notin DOMAIN ts[i]
  THEN "KeyError" ELSE ""

\* track i is placed before track j by the (stable) sort
before(ts, i, j) ==
  \/ ts[i].start_time < ts[j].start_time
  \/ ts[i].start_time = ts[j].start_time /\ i < j

sorted_by_start(ts) ==
  [r \in 1..Len(ts) |->
     CHOOSE i \in 1..Len(ts) :
       Cardinality({j \in 1..Len(ts) : before(ts, j, i)}) = r - 1]

reversed(s) == [k \in 1..Len(s) |-> s[Len(s) + 1 - k]]

\* variant without reversed()
time_order_ascending(ts) == sorted_by_start(ts)

\* deque(reversed(sorted(tracks, key = ...))), as indices into tracks
time_order(ts) == reversed(sorted_by_start(ts))

\* dict.get(key, default), the value as an option
get(d, key, default) == IF key \in DOMAIN d THEN Some(d[key]) ELSE default

\* variant with the operands of the subtraction swapped
sweep_track_swapped(track, end) ==
  LET start_time == get(track, "start_time", None)
      track2     == ("end_time" :> end) @@ track
  IN IF end # None /\ start_time # None
     THEN ("duration" :> start_time[1] - end[1]) @@ track2
     ELSE track2

\* lines 161-165: the track after one iteration of the sweep
sweep_track(track, end) ==
  LET start_time == get(track, "start_time", None)
      track2     == ("end_time" :> end) @@ track
  IN IF end # None /\ start_time # None
     THEN ("duration" :> end[1] - start_time[1]) @@ track2
     ELSE track2

\* lines 161-162, 166: the end time handed to the next iteration
pregap_of(track) ==
  get(track, "pregap_time", get(track, "start_time", None))

-----------------------------------------------------------------------------
(* main: the commands *)

\* str.upper() on the tag names the code uses
Upper(k) ==
  CASE k = "album" -> "ALBUM"
    [] k = "album_artist" -> "ALBUM_ARTIST"
    [] k = "composer" -> "COMPOSER"
    [] k = "genre" -> "GENRE"
    [] k = "DATE" -> "DATE"
    [] k = "replaygain_album_gain" -> "REPLAYGAIN_ALBUM_GAIN"
    [] k = "replaygain_album_peak" -> "REPLAYGAIN_ALBUM_PEAK"
    [] k = "track" -> "TRACK"
    [] k = "title" -> "TITLE"
    [] k = "artist" -> "ARTIST"
    [] k = "replaygain_track_gain" -> "REPLAYGAIN_TRACK_GAIN"
    [] k = "replaygain_track_peak" -> "REPLAYGAIN_TRACK_PEAK"

\* [f'{k.upper()}={v}' for (k, v) in m.items()]
meta_strings(m) == [i \in DOMAIN m |-> Upper(m[i][1]) \o "=" \o m[i][2]]

\* variant with the track's tags first
all_meta_track_first(file_meta_args, track_meta_args) ==
  track_meta_args \o file_meta_args

\* file_meta_args + track_meta_args
all_meta(file_meta_args, track_meta_args) ==
  file_meta_args \o track_meta_args

\* itertools.chain.from_iterable([['-metadata', v] for v in vs])
chain_metadata(vs) ==
  [i \in 1..(2 * Len(vs)) |->
     IF i % 2 = 1 THEN "-metadata" ELSE vs[i \div 2]]

\* the fallback of a buggy variant: the track's artist tag
file_author_artist(track, file_metadata) ==
  IF "artist" \in Keys(track.metadata)
  THEN Some(Get(track.metadata, "artist"))
  ELSE IF "album_artist" \in Keys(file_metadata)
       THEN Some(Get(file_metadata, "album_artist"))
       ELSE None

\* lines 176-179: the track's author tag, else the album's album_artist tag,
\* else KeyError (None)
file_author(track, file_metadata) ==
  IF "author" \in Keys(track.metadata)
  THEN Some(Get(track.metadata, "author"))
  ELSE IF "album_artist" \in Keys(file_metadata)
       THEN Some(Get(file_metadata, "album_artist"))
       ELSE None

\* math.ceil(math.log10(n)) for n >= 1
track_padding(n) == CHOOSE k \in 0..n : 10^k >= n /\ \A j \in 0..(k - 1) : 10^j < n

\* f"{id:0{width}d}"
RECURSIVE zero_pad(_, _)
zero_pad(str, width) ==
  IF Len(str) >= width THEN str ELSE zero_pad("0" \o str, width)

\* variant that passes the end time instead of the duration
opt_t_end(track) == track.end_time

\* ['-t', str(track['duration'])] if 'duration' in track else []
opt_t(track) == get(track, "duration", None)

\* lines 182-196: the command, as a record of its parts
command(track, file_metadata, file_path, n) ==
  [ss        |-> track.start_time,
   i         |-> file_path,
   t         |-> opt_t(track),
   meta_args |-> chain_metadata(all_meta(meta_strings(file_metadata),
                                         meta_strings(track.metadata))),
   out       |-> zero_pad(ToString(track.id), track_padding(n)) \o " - "
                   \o file_author(track, file_metadata)[1] \o " - "
                   \o Get(track.metadata, "title") \o ".flac"]

-----------------------------------------------------------------------------
(* main: the run *)

Abort(stage, exception) ==
  /\ pc' = "aborted"
  /\ error' = <<stage, exception>>

\* lines 91-120
BuildAlbum ==
  /\ pc = "album"
  /\ IF album_error(cue) # ""
     THEN /\ Abort("album", album_error(cue))
          /\ UNCHANGED <<metadata, track_count, path>>
     ELSE /\ track_count' = Len(cue["FILE"].v[1]["TRACK"].v)
          /\ path' = "cue_dir/" \o Join(Args0(cue, "FILE")[1])
          /\ metadata' = album_metadata(cue)
          /\ pc' = "tracks"
          /\ UNCHANGED error
  /\ UNCHANGED <<parseVars, timeVars, tracks, cursor, time_ordered_tracks,
                 end_time, sweep_i, emit_i, jobs>>

\* lines 122-152, one iteration of the inner loop and the step to the next
\* TRACK, to the next FILE, or out of the loops
BuildTrack ==
  /\ pc = "tracks"
  /\ LET files == cue["FILE"].v
         f     == files[cursor[1]]
         t     == f["TRACK"].v[cursor[2]]
     IN IF track_error(t) # ""
        THEN /\ Abort("track", track_error(t))
             /\ UNCHANGED <<tracks, cursor>>
        ELSE /\ tracks' = Append(tracks, build_track(t, track_count))
             /\ IF cursor[2] < Len(f["TRACK"].v)
                THEN /\ cursor' = <<cursor[1], cursor[2] + 1>>
                     /\ UNCHANGED <<pc, error>>
                ELSE IF cursor[1] < Len(files)
                THEN IF "TRACK" \in DOMAIN files[cursor[1] + 1]
                     THEN /\ cursor' = <<cursor[1] + 1, 1>>
                          /\ UNCHANGED <<pc, error>>
                     ELSE /\ Abort("track", "KeyError")
                          /\ UNCHANGED cursor
                ELSE /\ pc' = "sort"
                     /\ UNCHANGED <<cursor, error>>
  /\ UNCHANGED <<parseVars, timeVars, metadata, track_count, path,
                 time_ordered_tracks, end_time, sweep_i, emit_i, jobs>>

\* lines 155-159
SortTracks ==
  /\ pc = "sort"
  /\ IF sort_error(tracks) # ""
     THEN /\ Abort("sort", sort_error(tracks))
          /\ UNCHANGED <<time_ordered_tracks, end_time, sweep_i>>
     ELSE /\ time_ordered_tracks' = time_order(tracks)
          /\ end_time' = None
          /\ sweep_i' = 1
          /\ pc' = "sweep"
          /\ UNCHANGED error
  /\ UNCHANGED <<parseVars, timeVars, metadata, track_count, path, tracks,
                 cursor, emit_i, jobs>>

\* lines 160-166, one iteration
SweepStep ==
  /\ pc = "sweep"
  /\ LET k == time_ordered_tracks[sweep_i]
     IN /\ tracks' = [tracks EXCEPT ![k] = sweep_track(@, end_time)]
        /\ end_time' = pregap_of(tracks[k])
  /\ sweep_i' = sweep_i + 1
  /\ pc' = IF sweep_i = Len(time_ordered_tracks) THEN "emit" ELSE "sweep"
  /\ UNCHANGED <<parseVars, timeVars, metadata, track_count, path, cursor,
                 time_ordered_tracks, emit_i, jobs, error>>

\* lines 168-198, one iteration: the command of tracks[emit_i] is printed
EmitJob ==
  /\ pc = "emit"
  /\ LET track == tracks[emit_i]
     IN IF file_author(track, metadata) = None
        THEN /\ Abort("emit", "KeyError")
             /\ UNCHANGED <<jobs, emit_i>>
        ELSE /\ jobs' = Append(jobs, command(track, metadata, path, Len(tracks)))
             /\ emit_i' = emit_i + 1
             /\ pc' = IF emit_i = Len(tracks) THEN "done" ELSE "emit"
             /\ UNCHANGED error
  /\ UNCHANGED <<parseVars, timeVars, metadata, track_count, path, tracks,
                 cursor, time_ordered_tracks, end_time, sweep_i>>

-----------------------------------------------------------------------------
(* Input trees of main: one or two FILE entries holding up to MaxTracks    *)
(* TRACK entries, each of one of the kinds below; the album lines vary.    *)

Leaf(tokens) == ("" :> TokList(tokens))

\* a token whose characters main never inspects, written as one element
Word(w) == <<w>>

T0   == Stamp(D2("0", "0"), D2("0", "0"), D2("0", "0"))
T1   == Stamp(D2("0", "3"), D2("3", "0"), D2("0", "0"))
T2   == Stamp(D2("0", "7"), D2("1", "0"), D2("3", "7"))
Gap  == Stamp(D2("0", "3"), D2("2", "8"), D2("0", "0"))
BadT == <<"0", "x", ":", "0", "0", ":", "0", "0">>

I00(stamp) == Leaf(<<D2("0", "0"), stamp>>)
I01(stamp) == Leaf(<<D2("0", "1"), stamp>>)
I02(stamp) == Leaf(<<D2("0", "2"), stamp>>)

Title(w)      == "TITLE" :> ObjList(<<Leaf(<<Word(w)>>)>>)
Performer(w)  == "PERFORMER" :> ObjList(<<Leaf(<<Word(w)>>)>>)
Songwriter(w) == "SONGWRITER" :> ObjList(<<Leaf(<<Word(w)>>)>>)
Indexes(is)   == "INDEX" :> ObjList(is)

GAIN == <<"R", "E", "P", "L", "A", "Y", "G", "A", "I", "N", "_",
          "T", "R", "A", "C", "K", "_", "G", "A", "I", "N">>
GENRE == <<"G", "E", "N", "R", "E">>
DATE == <<"D", "A", "T", "E">>
COMMENT == <<"C", "O", "M", "M", "E", "N", "T">>

TrackKinds ==
  { Title("a") @@ Performer("q") @@ Indexes(<<I01(T0)>>),
    Title("c") @@ Songwriter("y") @@ Indexes(<<I01(T2), I02(BadT)>>),
    Title("d") @@ ("REM" :> ObjList(<<Leaf(<<GAIN, Word("1"), Word("dB")>>)>>))
               @@ Indexes(<<I00(Gap), I01(T1)>>),
    Title("e") @@ Indexes(<<I00(Gap), I01(T2)>>),
    Title("f") @@ Indexes(<<I00(Gap)>>),
    Title("g"),
    Title("h") @@ Indexes(<<I01(BadT)>>),
    Title("k") @@ Indexes(<<I01(T0), I00(Gap)>>),
    Indexes(<<I01(T0)>>) }

TrackObj(i, kind) == kind @@ Leaf(<<D2("0", Digit[i]), Word("AUDIO")>>)

FileObj(name, ts) == ("TRACK" :> ObjList(ts)) @@ Leaf(<<Word(name), Word("WAVE")>>)

\* the FILE entries: one FILE with all the tracks, or two FILE entries that
\* split them (a REM line at TRACK depth closes the first FILE)
FileLists(ts) ==
  {<<FileObj("x.wav", ts)>>}
  \cup {<<("REM" :> ObjList(<<Leaf(<<COMMENT>>)>>))
            @@ FileObj("x.wav", SubSeq(ts, 1, k)),
          FileObj("y.wav", SubSeq(ts, k + 1, Len(ts)))>> :
          k \in 1..(Len(ts) - 1)}

AlbumKinds ==
  { Title("L") @@ Performer("P") @@ Songwriter("X")
      @@ ("REM" :> ObjList(<<Leaf(<<GENRE, Word("Rock")>>),
                             Leaf(<<DATE, Word("1999")>>),
                             Leaf(<<COMMENT, Word("c")>>)>>)),
    Performer("P") @@ Songwriter("X"),
    Title("L") @@ Songwriter("X"),
    Title("L") @@ Performer("P") }

\* a tree without FILE, with a FILE that has no TRACK, or with a second
\* FILE that has no TRACK
BrokenTrees(album) ==
  {album,
   album @@ ("FILE" :> ObjList(<<Leaf(<<Word("x.wav"), Word("WAVE")>>)>>))}
  \cup {album @@ ("FILE" :> ObjList(<<FileObj("x.wav", <<TrackObj(1, k)>>),
                                     Leaf(<<Word("y.wav"), Word("WAVE")>>)>>)) :
          k \in TrackKinds}

InitCue ==
  \E album \in AlbumKinds :
    \/ \E n \in 1..MaxTracks : \E ks \in [1..n -> TrackKinds] :
         \E fl \in FileLists([i \in 1..n |-> TrackObj(i, ks[i])]) :
           cue = album @@ ("FILE" :> ObjList(fl))
    \/ cue \in BrokenTrees(album)

Init ==
  /\ pc = "album"
  /\ InitCue
  /\ raw_lines = <<>>
  /\ cue_data = <<>>
  /\ time = <<>>
  /\ delta = NoDelta
  /\ MainIdle

Next == BuildAlbum \/ BuildTrack \/ SortTracks \/ SweepStep \/ EmitJob
Spec == Init /\ [][Next]_vars

-----------------------------------------------------------------------------
(* Properties of main *)

SweepDone ==
  \/ pc \in {"emit", "done"}
  \/ pc = "aborted" /\ error[1] = "emit"

StartOf(i) == tracks[i].start_time
PregapOf(i) ==
  IF "pregap_time" \in DOMAIN tracks[i]
  THEN tracks[i].pregap_time
  ELSE tracks[i].start_time

DistinctStarts ==
  \A i, j \in DOMAIN tracks : i # j => StartOf(i) # StartOf(j)

\* the tracks that start later than track i
Later(i) == {j \in DOMAIN tracks : StartOf(j) > StartOf(i)}

\* the track with the next greater start time
NextOf(i) == CHOOSE j \in Later(i) : \A k \in Later(i) : StartOf(j) <= StartOf(k)

\* C2: with distinct start times and whatever the order of the list, after
\* the sweep every track but the latest ends at the pregap time (or, without
\* INDEX 00, the start time) of the track with the next greater start time
\* and lasts from its own start to that end; the latest track has an
\* undefined end_time and no duration.
C2_SweepBoundaries ==
  (SweepDone /\ DistinctStarts) =>
    \A i \in DOMAIN tracks :
      IF Later(i) = {}
      THEN /\ tracks[i].end_time = None
           /\ "duration" \notin DOMAIN tracks[i]
      ELSE /\ tracks[i].end_time = Some(PregapOf(NextOf(i)))
           /\ "duration" \in DOMAIN tracks[i]
           /\ tracks[i].duration = PregapOf(NextOf(i)) - StartOf(i)

\* three tracks out of time order, one of them with a pregap before its start
C2_Witness ==
  /\ SweepDone
  /\ Len(tracks) = 3
  /\ DistinctStarts
  /\ StartOf(1) > StartOf(2)
  /\ \E i \in DOMAIN tracks : PregapOf(i) < StartOf(i) /\ Later(i) # {}
  /\ \E i \in DOMAIN tracks : "duration" \in DOMAIN tracks[i]
                               /\ tracks[i].end_time # Some(StartOf(NextOf(i)))

\* the TRACK entries of the tree, over all its FILE entries
RECURSIVE CountTracks(_)
CountTracks(files) ==
  IF files = <<>> THEN 0
  ELSE (IF "TRACK" \in DOMAIN Head(files) THEN Len(Head(files)["TRACK"].v) ELSE 0)
         + CountTracks(Tail(files))

\* C3: no command is emitted before every track is built and the sweep has
\* given every track its end_time, and a run that aborts has emitted none.
C3_AllOrNothing ==
  /\ jobs # <<>> =>
       /\ Len(tracks) = CountTracks(cue["FILE"].v)
       /\ \A i \in DOMAIN tracks : "end_time" \in DOMAIN tracks[i]
  /\ pc = "aborted" => jobs = <<>>

\* a later track without TITLE aborts the run after an earlier one was built
C3_Witness ==
  /\ pc = "aborted"
  /\ error = <<"track", "KeyError">>
  /\ Len(tracks) >= 1
  /\ jobs = <<>>

UpperKeys ==
  {"ALBUM", "ALBUM_ARTIST", "COMPOSER", "GENRE", "DATE",
   "REPLAYGAIN_ALBUM_GAIN", "REPLAYGAIN_ALBUM_PEAK", "TRACK", "TITLE",
   "ARTIST", "REPLAYGAIN_TRACK_GAIN", "REPLAYGAIN_TRACK_PEAK"}

\* the tag values of the album and of track k
MetaValues(k) ==
  {metadata[i][2] : i \in DOMAIN metadata}
  \cup {tracks[k].metadata[i][2] : i \in DOMAIN tracks[k].metadata}

\* for every upper-cased key, the strings KEY=value it can head in command k
EntryTable(k) == [K \in UpperKeys |-> {K \o "=" \o v : v \in MetaValues(k)}]

\* the values that follow -metadata in a command
MetaEntries(job) ==
  [i \in 1..(Len(job.meta_args) \div 2) |-> job.meta_args[2 * i]]

\* the positions of the entries of key K
Positions(e, table, K) == {i \in DOMAIN e : e[i] \in table[K]}

UpperCased(job, table) ==
  /\ \A i \in DOMAIN job.meta_args : i % 2 = 1 => job.meta_args[i] = "-metadata"
  /\ \A i \in DOMAIN MetaEntries(job) :
       \E K \in UpperKeys : MetaEntries(job)[i] \in table[K]

BothComposers(k) ==
  "composer" \in Keys(metadata) /\ "composer" \in Keys(tracks[k].metadata)

\* C4 as stated: the metadata of a command has upper-cased keys, each key at
\* most once, and for a key set by the album and by the track it carries the
\* track's value and not the album's.
C4_Original ==
  \A k \in DOMAIN jobs :
    LET e     == MetaEntries(jobs[k])
        table == EntryTable(k)
    IN /\ UpperCased(jobs[k], table)
       /\ \A K \in UpperKeys : Cardinality(Positions(e, table, K)) <= 1
       /\ BothComposers(k) =>
            \A i \in Positions(e, table, "COMPOSER") :
              e[i] = "COMPOSER=" \o Get(tracks[k].metadata, "composer")

\* C4 (amended): the metadata of a command is a list of KEY=value entries
\* with upper-cased keys, the album's entries followed by the track's; a key
\* occurs at most once in each of the two parts, and for a key set by the
\* album and by the track the list carries both entries, the album's value
\* first and the track's value after it.
C4_AlbumThenTrack ==
  \A k \in DOMAIN jobs :
    LET n     == Len(metadata)
        e     == MetaEntries(jobs[k])
        table == EntryTable(k)
    IN /\ UpperCased(jobs[k], table)
       /\ Len(e) = n + Len(tracks[k].metadata)
       /\ \A K \in UpperKeys :
            /\ Cardinality(Positions(e, table, K) \cap (1..n)) <= 1
            /\ Cardinality(Positions(e, table, K) \ (1..n)) <= 1
       /\ \A i \in 1..n : \E K \in {Upper(x) : x \in Keys(metadata)} :
            e[i] \in table[K]
       /\ BothComposers(k) =>
            \E i \in 1..n : \E j \in (n + 1)..Len(e) :
              /\ Positions(e, table, "COMPOSER") = {i, j}
              /\ e[i] = "COMPOSER=" \o Get(metadata, "composer")
              /\ e[j] = "COMPOSER=" \o Get(tracks[k].metadata, "composer")

\* a command of a track with SONGWRITER in an album with SONGWRITER
C4_Witness ==
  /\ pc = "done"
  /\ \E k \in DOMAIN jobs :
       /\ BothComposers(k)
       /\ Get(metadata, "composer") # Get(tracks[k].metadata, "composer")
       /\ Cardinality(Positions(MetaEntries(jobs[k]), EntryTable(k),
                                 "COMPOSER")) = 2

\* C5: with two or more top-level FILE entries the tracks built are exactly
\* the TRACK entries of the first FILE, as many as the album's track count,
\* and so are the commands.
C5_FirstFileOnly ==
  ("FILE" \in DOMAIN cue /\ Len(cue["FILE"].v) >= 2) =>
    /\ pc \in {"sort", "sweep", "emit", "done"} =>
         /\ Len(tracks) = track_count
         /\ \A i \in DOMAIN tracks :
              tracks[i].id = int(cue["FILE"].v[1]["TRACK"].v[i][""].v[1])
    /\ Len(jobs) <= track_count

\* C8: when the first track has a start time and a later track has INDEX
\* entries but no INDEX 01, the sort and the sweep do not raise; that track
\* gets an end_time and no duration, every other track its end_time.
C8_MissingStartTolerated ==
  (/\ Len(tracks) >= 2
   /\ "start_time" \in DOMAIN tracks[1]
   /\ \E k \in 2..Len(tracks) : "start_time" \notin DOMAIN tracks[k]) =>
    /\ ~(pc = "aborted" /\ error[1] = "sort")
    /\ SweepDone =>
         \A k \in DOMAIN tracks :
           /\ "end_time" \in DOMAIN tracks[k]
           /\ "start_time" \notin DOMAIN tracks[k]
                => "duration" \notin DOMAIN tracks[k]

\* C9 as stated: the track the sweep processes last, the one with the
\* smallest start time, has an undefined end_time and no duration, and its
\* command has no -t.
C9_Original ==
  (pc = "done" /\ Len(tracks) >= 2 /\ DistinctStarts) =>
    LET k == time_ordered_tracks[Len(time_ordered_tracks)]
    IN /\ \A j \in DOMAIN tracks : StartOf(k) <= StartOf(j)
       /\ tracks[k].end_time = None
       /\ "duration" \notin DOMAIN tracks[k]
       /\ jobs[k].t = None

\* C9 (amended): the track the sweep processes first, the one with the
\* greatest start time, has an undefined end_time and no duration and is the
\* one extracted to the end of the source file: its command has no -t, and
\* the command of every other track has -t with that track's duration.
C9_LatestTrackOpenEnded ==
  (pc = "done" /\ Len(tracks) >= 2 /\ DistinctStarts) =>
    LET k == time_ordered_tracks[1]
    IN /\ \A j \in DOMAIN tracks : StartOf(j) <= StartOf(k)
       /\ tracks[k].end_time = None
       /\ "duration" \notin DOMAIN tracks[k]
       /\ jobs[k].t = None
       /\ \A j \in DOMAIN tracks \ {k} :
            /\ jobs[j].t # None
            /\ jobs[j].t = Some(tracks[j].end_time[1] - StartOf(j))

\* all commands printed, the latest track first in the list
C9_Witness ==
  /\ pc = "done"
  /\ Len(jobs) = 3
  /\ DistinctStarts
  /\ time_ordered_tracks[1] = 1
  /\ jobs[1].t = None
  /\ jobs[2].t # None /\ jobs[3].t # None

PregapNotLater == \A i \in DOMAIN tracks : PregapOf(i) <= StartOf(i)

NoNegativeDuration ==
  /\ \A i \in DOMAIN tracks :
       "duration" \in DOMAIN tracks[i] => tracks[i].duration >= 0
  /\ \A k \in DOMAIN jobs : jobs[k].t # None => jobs[k].t[1] >= 0

\* C10 as stated: when every track has a start time and no pregap time is
\* later than the same track's start time, no duration is negative.
C10_Original ==
  (SweepDone /\ PregapNotLater) => NoNegativeDuration

\* no pregap time is earlier than the start time of another track that
\* starts no later
PregapAfterEarlierStarts ==
  \A i, j \in DOMAIN tracks :
    (i # j /\ StartOf(i) <= StartOf(j)) => StartOf(i) <= PregapOf(j)

\* C10 (amended): when every track has a start time, no pregap time is later
\* than the same track's start time, and no pregap time is earlier than the
\* start time of another track that starts no later, no duration is
\* negative.
C10_NoNegativeDuration ==
  (SweepDone /\ PregapNotLater /\ PregapAfterEarlierStarts)
    => NoNegativeDuration

\* a pregap between two starts, and two tracks that share a start time
C10_Witness ==
  /\ pc = "done"
  /\ PregapNotLater
  /\ PregapAfterEarlierStarts
  /\ \E i \in DOMAIN tracks : PregapOf(i) < StartOf(i)
  /\ \E i, j \in DOMAIN tracks : i # j /\ StartOf(i) = StartOf(j)
  /\ \E k \in DOMAIN jobs : jobs[k].t # None /\ jobs[k].t[1] > 0

====
